---- MODULE Spec2Model ----
(***************************************************************************)
(* A model of LEDKontroller.ino: the remote-signal monitor (updateState,   *)
(* switchOn), the interruptible wait (belay), the seven effect programs    *)
(* and the "program manager" loop().                                       *)
(*                                                                         *)
(* The main control flow is one sequential process whose position is pc    *)
(* (a label of the sketch) over a stack of return labels.  The interrupt   *)
(* handler updateState and the millisecond clock are the environment.      *)
(* Timing assumption: one statement of the sketch takes far less than a    *)
(* millisecond, so a busy-wait loop observes every value of millis().      *)
(***************************************************************************)
EXTENDS Integers, Sequences, FiniteSets, TLC

\* ---------------------------------------------------------------- constants
rLed == 9
gLed == 10
bLed == 11
ledPins == <<rLed, gLed, bLed>>
Leds == {rLed, gLed, bLed}
fastPollMillis == 100
hibernateMillis == 10000

\* ------------------------------------------------------------------- bounds
\* time passes inside a program only up to OnHorizon
OnHorizon == 100
\* the signal is asserted only up to RiseHorizon
RiseHorizon == 10101
\* the clock stops at MaxTime
MaxTime == 10201
\* time passes inside the fade programs (SpecFade) only up to FadeHorizon
FadeHorizon == 1600
\* time passes in SpecRamp only up to RampHorizon
RampHorizon == 9300
\* time passes inside belay (SpecBelay) only up to BelayHorizon
BelayHorizon == 400
\* random(min, max) ranges wider than this are sampled at their two ends
MaxRandom == 3
\* the signal is asserted at most MaxRises times per call of a program
MaxRises == 2
\* and at most MaxFadeRises times per call of a fade program in SpecFade
MaxFadeRises == 1

VARIABLES
  raw,          \* level of pin remoteIn
  irq,          \* a CHANGE interrupt is pending
  remoteState,  \* volatile bool remoteState
  now,          \* millis()
  lastOn, lastOff,
  led,          \* last value given to setLed, per pin
  pc, stack,    \* position of the main control flow, return labels
  ret,          \* value returned by the last switchOn()
  program, fadeAmount, delayMillis,   \* locals of loop()
  argFade, argDelay,                  \* parameters of the running program
  i, brightness,                      \* locals of the running program
  start, period,                      \* belay(): local and parameter
  delayFrom,                          \* delay(): when it was called
  lowSince,     \* history: when the pin last went (or booted) low
  shown,        \* history: last PROG / HIBERNATE debug message
  rises,        \* history: off->on changes of remoteState since loop() last
                \* called a program, saw one return, or hibernated
  edgeSince,    \* history: updateState ran since switchOn last read remoteState
  seen          \* history: remoteState as the switchOn() call under way read
                \* it at line 66 (FALSE outside a call)

vars == <<raw, irq, remoteState, now, lastOn, lastOff, led, pc, stack, ret,
          program, fadeAmount, delayMillis, argFade, argDelay, i, brightness,
          start, period, delayFrom, lowSince, shown, rises, edgeSince,
          seen>>

envVars == <<raw, irq, remoteState, lowSince, rises, edgeSince, seen>>
sigVars == <<raw, irq, remoteState, lowSince>>
stampVars == <<lastOn, lastOff>>
loopVars == <<program, fadeAmount, delayMillis>>
progVars == <<argFade, argDelay, i, brightness>>
belayVars == <<start, period>>

\* messages of debug(): BOOT before any, HIBERNATE, or PROG n+1 as n in 0..6
BOOT == -2
HIBERNATE == -1

\* unsigned long subtraction.  The clock values of the model are far below
\* 2^31, so a - b wraps (by 2^32) exactly when it is negative; the wrapped
\* value, 2^32 + a - b, is beyond the integers of the checker and is kept as
\* the largest of them: it is only ever compared with far smaller durations.
Sub32(a, b) == IF a >= b THEN a - b ELSE 2147483647

millisSinceLastOff(t) == Sub32(t, lastOff)
millisSinceLastOn(t) == Sub32(t, lastOn)

\* random(min, max): min .. max-1
Random(min, max) ==
  IF max - min <= MaxRandom THEN min .. (max - 1) ELSE {min, max - 1}

AllOff == [p \in Leds |-> 0]

\* setLed(pin, v) on outputs l
setLed(l, pin, v) == [l EXCEPT ![pin] = v]

ledsOff_first_only(l) == setLed(l, rLed, 0)
ledsOff(l) == setLed(setLed(setLed(l, rLed, 0), gLed, 0), bLed, 0)

Init ==
  /\ raw \in BOOLEAN
  /\ irq = FALSE
  /\ remoteState = FALSE
  /\ now = 0
  /\ lastOn = 0
  /\ lastOff = 0
  /\ led = AllOff
  /\ pc = "loop_poll"
  /\ stack = <<>>
  /\ ret = FALSE
  /\ program = 0
  /\ fadeAmount = 0
  /\ delayMillis = 0
  /\ argFade = 0
  /\ argDelay = 0
  /\ i = 0
  /\ brightness = 0
  /\ start = 0
  /\ period = 0
  /\ delayFrom = 0
  /\ lowSince = 0
  /\ shown = BOOT
  /\ rises = 0
  /\ edgeSince = FALSE
  /\ seen = FALSE


\* ------------------------------------------------------------ control flow
At(l) == pc = l /\ ~irq

Goto(l) == pc' = l /\ stack' = stack

Call(target, back) == pc' = target /\ stack' = <<back>> \o stack

Return == pc' = Head(stack) /\ stack' = Tail(stack)

\* ------------------------------------------------------------- environment
\* the pin changes level; the CHANGE interrupt (attachInterrupt) is raised
SignalEdge(maxRises) ==
  /\ ~irq
  /\ raw \/ (now <= RiseHorizon /\ rises < maxRises)
  /\ raw' = ~raw
  /\ irq' = TRUE
  /\ lowSince' = IF raw THEN now ELSE lowSince
  /\ UNCHANGED <<remoteState, now, lastOn, lastOff, led, pc, stack, ret,
                 loopVars, progVars, belayVars, delayFrom, shown, rises,
                 edgeSince, seen>>

\* what updateState() stores
updateState_value(level) == level

\* the interrupt handler
updateState_stamps ==
  /\ irq
  /\ remoteState' = updateState_value(raw)
  /\ irq' = FALSE
  /\ rises' = IF ~remoteState /\ remoteState' THEN rises + 1 ELSE rises
  /\ edgeSince' = TRUE
  /\ lastOn' = IF remoteState' THEN now ELSE lastOn
  /\ lastOff' = IF remoteState' THEN lastOff ELSE now
  /\ UNCHANGED <<raw, now, led, pc, stack, ret, loopVars, progVars,
                 belayVars, delayFrom, lowSince, shown, seen>>
updateState ==
  /\ irq
  /\ remoteState' = updateState_value(raw)
  /\ irq' = FALSE
  /\ rises' = IF ~remoteState /\ remoteState' THEN rises + 1 ELSE rises
  /\ edgeSince' = TRUE
  /\ UNCHANGED <<raw, now, lastOn, lastOff, led, pc, stack, ret, loopVars,
                 progVars, belayVars, delayFrom, lowSince, shown, seen>>

\* while (remoteState) { if ((millis() - start) >= period) break; }
belayExpired_strict(t) == Sub32(t, start) > period
belayExpired(t) == Sub32(t, start) >= period

\* delay(fastPollMillis) is over
delayExpired_never(t) == Sub32(t, delayFrom) < 0
delayExpired(t) == Sub32(t, delayFrom) >= fastPollMillis

\* else if (millisSinceLastOff() > 10000)
hibernateDue_never(t) == millisSinceLastOff(t) < 0
hibernateDue(t) == millisSinceLastOff(t) > hibernateMillis

\* the main flow is in a busy-wait that only the clock or the signal ends
Waiting ==
  \/ pc \in {"belay_while", "belay_if"} /\ remoteState
  \/ pc \in {"static_delay", "hib_delay"}
  \/ pc = "loop_poll" /\ ~remoteState

\* polled at instant t, the busy-wait would be left
Leaves(t) ==
  CASE pc \in {"belay_while", "belay_if"} -> belayExpired(t)
    [] pc \in {"static_delay", "hib_delay"} -> delayExpired(t)
    [] OTHER -> hibernateDue(t) \/ millisSinceLastOn(t) < millisSinceLastOff(t)

\* the wait's nominal remaining time
Remaining ==
  CASE pc \in {"belay_while", "belay_if"} -> period - Sub32(now, start)
    [] pc \in {"static_delay", "hib_delay"} ->
         fastPollMillis - Sub32(now, delayFrom)
    [] OTHER -> hibernateMillis + 1 - millisSinceLastOff(now)

\* the clock advances: in a busy-wait that is not over, to the first instant
\* at which a poll leaves it
Tick(horizon) ==
  /\ ~irq
  /\ Waiting
  /\ ~Leaves(now)
  /\ \E d \in {Remaining - 1, Remaining, Remaining + 1} :
       /\ d >= 1
       /\ Leaves(now + d)
       /\ \A e \in {Remaining - 1, Remaining} :
            (1 <= e /\ e < d) => ~Leaves(now + e)
       /\ now + d <= MaxTime
       /\ pc \in {"belay_while", "belay_if", "static_delay"} =>
            now + d <= horizon
       /\ now' = now + d
  /\ UNCHANGED <<envVars, lastOn, lastOff, led, pc, stack, ret, loopVars,
                 progVars, belayVars, delayFrom, shown>>

TickMain == Tick(OnHorizon)

\* ---------------------------------------------------------------- switchOn
\* lines 66-67 and 73: the branch taken (both operands of a comparison read
\* the same millisecond)
SwTest ==
  /\ At("sw_test")
  /\ IF remoteState
       THEN IF millisSinceLastOff(now) <= millisSinceLastOn(now)
              THEN Goto("sw_lastOn") ELSE Goto("sw_ret")
       ELSE IF millisSinceLastOn(now) < millisSinceLastOff(now)
              THEN Goto("sw_lastOff") ELSE Goto("sw_ret")
  /\ edgeSince' = FALSE
  /\ seen' = remoteState
  /\ UNCHANGED <<raw, irq, remoteState, lowSince, rises, now, lastOn, lastOff,
                 led, ret, loopVars, progVars, belayVars, delayFrom, shown>>

\* lastOn = millis()
SwLastOn ==
  /\ At("sw_lastOn")
  /\ lastOn' = now
  /\ Goto("sw_ret")
  /\ UNCHANGED <<envVars, now, lastOff, led, ret, loopVars, progVars,
                 belayVars, delayFrom, shown>>

\* lastOff = millis()
SwLastOff ==
  /\ At("sw_lastOff")
  /\ lastOff' = now
  /\ Goto("sw_ret")
  /\ UNCHANGED <<envVars, now, lastOn, led, ret, loopVars, progVars,
                 belayVars, delayFrom, shown>>

\* return remoteState
SwRet_true ==
  /\ At("sw_ret")
  /\ ret' = TRUE
  /\ seen' = FALSE
  /\ Return
  /\ UNCHANGED <<sigVars, rises, edgeSince, now, stampVars, led, loopVars,
                 progVars, belayVars, delayFrom, shown>>
SwRet_first_read ==
  /\ At("sw_ret")
  /\ ret' = seen
  /\ seen' = FALSE
  /\ Return
  /\ UNCHANGED <<sigVars, rises, edgeSince, now, stampVars, led, loopVars,
                 progVars, belayVars, delayFrom, shown>>
SwRet ==
  /\ At("sw_ret")
  /\ ret' = remoteState
  /\ seen' = FALSE
  /\ Return
  /\ UNCHANGED <<sigVars, rises, edgeSince, now, stampVars, led, loopVars,
                 progVars, belayVars, delayFrom, shown>>

\* ------------------------------------------------------------------- belay
CallBelay(d, back) == period' = d /\ start' = start /\ Call("belay_entry", back)

\* unsigned long start = millis()
BelayEntry ==
  /\ At("belay_entry")
  /\ start' = now
  /\ Goto("belay_while")
  /\ UNCHANGED <<envVars, now, stampVars, led, ret, loopVars, progVars,
                 period, delayFrom, shown>>

\* while (remoteState)
BelayWhile_stamps ==
  /\ At("belay_while")
  /\ IF remoteState
       THEN Goto("belay_if") /\ UNCHANGED <<belayVars, lastOff>>
       ELSE Return /\ start' = 0 /\ period' = 0 /\ lastOff' = now
  /\ UNCHANGED <<envVars, now, lastOn, led, ret, loopVars, progVars,
                 delayFrom, shown>>
BelayWhile ==
  /\ At("belay_while")
  /\ IF remoteState
       THEN Goto("belay_if") /\ UNCHANGED belayVars
       ELSE Return /\ start' = 0 /\ period' = 0
  /\ UNCHANGED <<envVars, now, stampVars, led, ret, loopVars, progVars,
                 delayFrom, shown>>

\* if ((millis() - start) >= period) break
BelayIf ==
  /\ At("belay_if")
  /\ IF belayExpired(now)
       THEN Return /\ start' = 0 /\ period' = 0
       ELSE Goto("belay_while") /\ UNCHANGED belayVars
  /\ UNCHANGED <<envVars, now, stampVars, led, ret, loopVars, progVars,
                 delayFrom, shown>>


\* ---------------------------------------------------------- effect programs
ReturnFromProgram ==
  /\ Return
  /\ argFade' = 0 /\ argDelay' = 0 /\ i' = 0 /\ brightness' = 0

\* the colour loop() gives staticColorProgram
StaticColor == <<25, 255, 25>>

\* staticColorProgram: setLed(rLed, r); setLed(gLed, g); setLed(bLed, b);
\* then the first switchOn() of the while
StaticSet ==
  /\ At("static_set")
  /\ led' = setLed(setLed(setLed(led, rLed, StaticColor[1]),
                          gLed, StaticColor[2]), bLed, StaticColor[3])
  /\ Call("sw_test", "static_while")
  /\ UNCHANGED <<envVars, now, stampVars, ret, loopVars, progVars, belayVars,
                 delayFrom, shown>>

\* while (switchOn()) { delay(fastPollMillis); }
StaticWhile ==
  /\ At("static_while")
  /\ IF ret
       THEN Goto("static_delay") /\ delayFrom' = now
       ELSE Goto("static_off") /\ delayFrom' = delayFrom
  /\ ret' = FALSE
  /\ UNCHANGED <<envVars, now, stampVars, led, loopVars, progVars, belayVars,
                 shown>>

StaticDelay ==
  /\ At("static_delay")
  /\ delayExpired(now)
  /\ delayFrom' = 0
  /\ Call("sw_test", "static_while")
  /\ UNCHANGED <<envVars, now, stampVars, led, ret, loopVars, progVars,
                 belayVars, shown>>

\* the ledsOff() that ends every program, and its return
ProgramOff ==
  /\ \E l \in {"static_off", "fade_off", "afade_off", "run_off", "blink_off",
               "blast_off", "ablast_off"} : At(l)
  /\ led' = ledsOff(led)
  /\ ReturnFromProgram
  /\ UNCHANGED <<envVars, now, stampVars, ret, loopVars, belayVars, delayFrom,
                 shown>>

\* while (switchOn()) of the programs that loop on it: poll, then branch
ProgramPoll ==
  /\ \E l \in {"fade_poll", "afade_poll", "run_poll", "blink_poll",
               "blast_poll", "ablast_poll"} :
       /\ At(l)
       /\ Call("sw_test",
               CASE l = "fade_poll" -> "fade_while"
                 [] l = "afade_poll" -> "afade_while"
                 [] l = "run_poll" -> "run_while"
                 [] l = "blink_poll" -> "blink_while"
                 [] l = "blast_poll" -> "blast_while"
                 [] OTHER -> "ablast_while")
  /\ UNCHANGED <<envVars, now, stampVars, led, ret, loopVars, progVars,
                 belayVars, delayFrom, shown>>

\* brightness = brightness + fadeAmount
fadeNext(b, f) == b + f

\* if ((brightness <= 0) or (brightness >= 255)) fadeAmount = -fadeAmount
fadeTurn_early(b, f) == IF b <= 0 \/ b >= 250 THEN -f ELSE f
fadeTurn(b, f) == IF b <= 0 \/ b >= 255 THEN -f ELSE f

\* fadeLedProgram: while (switchOn()) { for (int i=0; ...
FadeWhile ==
  /\ At("fade_while")
  /\ IF ret
       THEN Goto("fade_for") /\ i' = 0
       ELSE Goto("fade_off") /\ i' = i
  /\ ret' = FALSE
  /\ UNCHANGED <<envVars, now, stampVars, led, loopVars, argFade, argDelay,
                 brightness, belayVars, delayFrom, shown>>

\* for (...; i<3; ...) { int brightness = 0;
FadeFor ==
  /\ At("fade_for")
  /\ IF i < 3
       THEN Goto("fade_inner") /\ brightness' = 0 /\ i' = i
       ELSE Goto("fade_poll") /\ brightness' = 0 /\ i' = 0
  /\ UNCHANGED <<envVars, now, stampVars, led, ret, loopVars, argFade,
                 argDelay, belayVars, delayFrom, shown>>

\* while (remoteState), and the i++ when it ends
FadeInner ==
  /\ At("fade_inner")
  /\ IF remoteState
       THEN Goto("fade_step") /\ i' = i
       ELSE Goto("fade_for") /\ i' = i + 1
  /\ UNCHANGED <<envVars, now, stampVars, led, ret, loopVars, argFade,
                 argDelay, brightness, belayVars, delayFrom, shown>>

\* lines 143-150: step, reverse, setLed, belay(delayMillis)
FadeStep ==
  /\ At("fade_step")
  /\ brightness' = fadeNext(brightness, argFade)
  /\ argFade' = fadeTurn(brightness', argFade)
  /\ led' = setLed(led, ledPins[i + 1], brightness')
  /\ CallBelay(argDelay, "fade_break")
  /\ UNCHANGED <<envVars, now, stampVars, ret, loopVars, argDelay, i,
                 delayFrom, shown>>

\* if (brightness <= 0) break
FadeBreak ==
  /\ At("fade_break")
  /\ IF brightness <= 0
       THEN Goto("fade_for") /\ i' = i + 1
       ELSE Goto("fade_inner") /\ i' = i
  /\ UNCHANGED <<envVars, now, stampVars, led, ret, loopVars, argFade,
                 argDelay, brightness, belayVars, delayFrom, shown>>

\* alt_fadeLedProgram: int brightness = 0
AltFadeInit ==
  /\ At("afade_init")
  /\ brightness' = 0
  /\ Goto("afade_poll")
  /\ UNCHANGED <<envVars, now, stampVars, led, ret, loopVars, argFade,
                 argDelay, i, belayVars, delayFrom, shown>>

AltFadeWhile ==
  /\ At("afade_while")
  /\ IF ret THEN Goto("afade_step") ELSE Goto("afade_off")
  /\ ret' = FALSE
  /\ UNCHANGED <<envVars, now, stampVars, led, loopVars, progVars, belayVars,
                 delayFrom, shown>>

\* lines 168-177
AltFadeStep ==
  /\ At("afade_step")
  /\ brightness' = fadeNext(brightness, argFade)
  /\ argFade' = fadeTurn(brightness', argFade)
  /\ led' = [p \in Leds |-> brightness']
  /\ CallBelay(argDelay, "afade_poll")
  /\ UNCHANGED <<envVars, now, stampVars, ret, loopVars, argDelay, i,
                 delayFrom, shown>>

\* runningColorsProgram
RunWhile ==
  /\ At("run_while")
  /\ IF ret THEN Goto("run_for") ELSE Goto("run_off")
  /\ i' = 0
  /\ ret' = FALSE
  /\ UNCHANGED <<envVars, now, stampVars, led, loopVars, argFade, argDelay,
                 brightness, belayVars, delayFrom, shown>>

\* for (...; i<3; ...) { setLed(ledPins[i], 255); belay(delayMillis);
RunFor ==
  /\ At("run_for")
  /\ IF i < 3
       THEN /\ led' = setLed(led, ledPins[i + 1], 255)
            /\ CallBelay(argDelay, "run_zero")
            /\ i' = i
       ELSE /\ Goto("run_poll")
            /\ i' = 0
            /\ UNCHANGED <<led, belayVars>>
  /\ UNCHANGED <<envVars, now, stampVars, ret, loopVars, argFade, argDelay,
                 brightness, delayFrom, shown>>

\* setLed(ledPins[i], 0); i++
RunZero ==
  /\ At("run_zero")
  /\ led' = setLed(led, ledPins[i + 1], 0)
  /\ i' = i + 1
  /\ Goto("run_for")
  /\ UNCHANGED <<envVars, now, stampVars, ret, loopVars, argFade, argDelay,
                 brightness, belayVars, delayFrom, shown>>

\* blinkLedProgram
BlinkWhile ==
  /\ At("blink_while")
  /\ IF ret THEN Goto("blink_on") ELSE Goto("blink_off")
  /\ ret' = FALSE
  /\ UNCHANGED <<envVars, now, stampVars, led, loopVars, progVars, belayVars,
                 delayFrom, shown>>

\* all three to 255; belay(delayMillis)
BlinkOn ==
  /\ At("blink_on")
  /\ led' = [p \in Leds |-> 255]
  /\ CallBelay(argDelay, "blink_dark")
  /\ UNCHANGED <<envVars, now, stampVars, ret, loopVars, progVars, delayFrom,
                 shown>>

\* ledsOff(); belay(delayMillis/2)
BlinkDark ==
  /\ At("blink_dark")
  /\ led' = ledsOff(led)
  /\ CallBelay(argDelay \div 2, "blink_poll")
  /\ UNCHANGED <<envVars, now, stampVars, ret, loopVars, progVars, delayFrom,
                 shown>>

\* colorBlasterProgram
BlastWhile ==
  /\ At("blast_while")
  /\ IF ret THEN Goto("blast_set") ELSE Goto("blast_off")
  /\ ret' = FALSE
  /\ UNCHANGED <<envVars, now, stampVars, led, loopVars, progVars, belayVars,
                 delayFrom, shown>>

\* three setLed(.., random(1, 256))
RandomColor ==
  /\ \E r \in Random(1, 256), g \in Random(1, 256), b \in Random(1, 256) :
       led' = setLed(setLed(setLed(led, rLed, r), gLed, g), bLed, b)
  /\ UNCHANGED <<envVars, now, stampVars, ret, loopVars, progVars, delayFrom,
                 shown>>

BlastSet ==
  /\ At("blast_set")
  /\ RandomColor
  /\ CallBelay(argDelay, "blast_poll")

\* alt_colorBlasterProgram: the random colour to start with
AltBlastInit ==
  /\ At("ablast_init")
  /\ RandomColor
  /\ Goto("ablast_poll")
  /\ UNCHANGED belayVars

AltBlastWhile ==
  /\ At("ablast_while")
  /\ IF ret THEN Goto("ablast_set") ELSE Goto("ablast_off")
  /\ ret' = FALSE
  /\ UNCHANGED <<envVars, now, stampVars, led, loopVars, progVars, belayVars,
                 delayFrom, shown>>

\* setLed(ledPins[random(3)], random(1, 256)); belay(delayMillis)
AltBlastSet ==
  /\ At("ablast_set")
  /\ \E k \in Random(0, 3), v \in Random(1, 256) :
       led' = setLed(led, ledPins[k + 1], v)
  /\ CallBelay(argDelay, "ablast_poll")
  /\ UNCHANGED <<envVars, now, stampVars, ret, loopVars, progVars, delayFrom,
                 shown>>


\* -------------------------------------------------------------------- loop
\* if (switchOn())
LoopPoll ==
  /\ At("loop_poll")
  /\ Call("sw_test", "loop_if")
  /\ UNCHANGED <<envVars, now, stampVars, led, ret, loopVars, progVars,
                 belayVars, delayFrom, shown>>

LoopIf_always ==
  /\ At("loop_if")
  /\ Goto("loop_switch")
  /\ ret' = FALSE
  /\ UNCHANGED <<envVars, now, stampVars, led, loopVars, progVars, belayVars,
                 delayFrom, shown>>
LoopIf ==
  /\ At("loop_if")
  /\ IF ret THEN Goto("loop_switch") ELSE Goto("loop_elif")
  /\ ret' = FALSE
  /\ UNCHANGED <<envVars, now, stampVars, led, loopVars, progVars, belayVars,
                 delayFrom, shown>>

\* the cases of switch (program): first label of the program each one calls,
\* and the fadeAmount and delayMillis it sets (0: leaves it as it is)
CaseEntry == <<"static_set", "fade_poll", "afade_init", "run_poll",
               "blink_poll", "blast_poll", "ablast_init">>
CaseFade == <<0, 5, 5, 0, 0, 0, 0>>
CaseDelay == <<0, 30, 30, 80, 350, 500, 250>>
NumPrograms == Len(CaseEntry)

\* case 0 .. case 6: debug("PROG n"), set the parameters, call the program
LoopCase ==
  /\ At("loop_switch")
  /\ program \in 0 .. (NumPrograms - 1)
  /\ shown' = program
  /\ rises' = 0
  /\ fadeAmount' = IF CaseFade[program + 1] # 0
                     THEN CaseFade[program + 1] ELSE fadeAmount
  /\ delayMillis' = IF CaseDelay[program + 1] # 0
                      THEN CaseDelay[program + 1] ELSE delayMillis
  /\ argFade' = CaseFade[program + 1]
  /\ argDelay' = CaseDelay[program + 1]
  /\ Call(CaseEntry[program + 1], "loop_advance")
  /\ UNCHANGED <<sigVars, edgeSince, seen, now, stampVars, led, ret, program, i,
                 brightness, belayVars, delayFrom>>

\* default: program = 0; continue;
wrapTo_last(p) == p - 1
wrapTo(p) == 0

LoopDefault ==
  /\ At("loop_switch")
  /\ program \notin 0 .. (NumPrograms - 1)
  /\ program' = wrapTo(program)
  /\ Goto("loop_poll")
  /\ UNCHANGED <<envVars, now, stampVars, led, ret, fadeAmount, delayMillis,
                 progVars, belayVars, delayFrom, shown>>

\* program += 1
advance_by_two(p) == p + 2
advance_back(p) == p - 1
advance(p) == p + 1

LoopAdvance ==
  /\ At("loop_advance")
  /\ program' = advance(program)
  /\ rises' = 0
  /\ Goto("loop_poll")
  /\ UNCHANGED <<sigVars, edgeSince, seen, now, stampVars, led, ret, fadeAmount, delayMillis,
                 progVars, belayVars, delayFrom, shown>>

\* else if (millisSinceLastOff() > 10000)
LoopElif ==
  /\ At("loop_elif")
  /\ IF hibernateDue(now) THEN Goto("hib_reset") ELSE Goto("loop_poll")
  /\ UNCHANGED <<envVars, now, stampVars, led, ret, loopVars, progVars,
                 belayVars, delayFrom, shown>>

\* debug("HIBERNATE"); program = 0
hibernateProgram_kept(p) == p
hibernateProgram(p) == 0

HibReset ==
  /\ At("hib_reset")
  /\ program' = hibernateProgram(program)
  /\ shown' = HIBERNATE
  /\ rises' = 0
  /\ Goto("hib_test")
  /\ UNCHANGED <<sigVars, edgeSince, seen, now, stampVars, led, ret, fadeAmount, delayMillis,
                 progVars, belayVars, delayFrom>>

\* while (!remoteState)
HibTest ==
  /\ At("hib_test")
  /\ IF ~remoteState
       THEN Goto("hib_delay") /\ delayFrom' = now
       ELSE Goto("loop_poll") /\ delayFrom' = delayFrom
  /\ UNCHANGED <<envVars, now, stampVars, led, ret, loopVars, progVars,
                 belayVars, shown>>

\* delay(fastPollMillis)
HibDelay ==
  /\ At("hib_delay")
  /\ delayExpired(now)
  /\ delayFrom' = 0
  /\ Goto("hib_test")
  /\ UNCHANGED <<envVars, now, stampVars, led, ret, loopVars, progVars,
                 belayVars, shown>>

\* ------------------------------------------------------------ specification
SwitchOnStep == SwTest \/ SwLastOn \/ SwLastOff \/ SwRet

BelayStep == BelayEntry \/ BelayWhile \/ BelayIf

FadeStepAny ==
  \/ FadeWhile \/ FadeFor \/ FadeInner \/ FadeStep \/ FadeBreak
  \/ AltFadeInit \/ AltFadeWhile \/ AltFadeStep

ProgramStep ==
  \/ StaticSet \/ StaticWhile \/ StaticDelay \/ ProgramOff \/ ProgramPoll
  \/ FadeStepAny
  \/ RunWhile \/ RunFor \/ RunZero
  \/ BlinkWhile \/ BlinkOn \/ BlinkDark
  \/ BlastWhile \/ BlastSet
  \/ AltBlastInit \/ AltBlastWhile \/ AltBlastSet

LoopStep ==
  \/ LoopPoll \/ LoopIf \/ LoopCase \/ LoopDefault \/ LoopAdvance
  \/ LoopElif \/ HibReset \/ HibTest \/ HibDelay

\* one step of the main control flow
Main == SwitchOnStep \/ BelayStep \/ ProgramStep \/ LoopStep

EdgeMain == SignalEdge(MaxRises)

Next == EdgeMain \/ updateState \/ TickMain \/ Main

Spec == Init /\ [][Next]_vars

\* the fade programs by themselves, as loop() calls them with the signal on,
\* for several values of the parameter fadeAmount
FadeAmounts == {5, 7, 255}

InitFade ==
  /\ raw = TRUE /\ irq = FALSE /\ remoteState = TRUE
  /\ now = 0 /\ lastOn = 0 /\ lastOff = 0
  /\ led = AllOff
  /\ program \in {1, 2}
  /\ pc = CaseEntry[program + 1]
  /\ stack = <<"loop_advance">>
  /\ ret = FALSE
  /\ argFade \in FadeAmounts
  /\ fadeAmount = argFade
  /\ argDelay = CaseDelay[program + 1]
  /\ delayMillis = argDelay
  /\ i = 0 /\ brightness = 0 /\ start = 0 /\ period = 0 /\ delayFrom = 0
  /\ lowSince = 0
  /\ shown = program
  /\ rises = 0
  /\ edgeSince = FALSE
  /\ seen = FALSE

TickFade == Tick(FadeHorizon)

EdgeFade == SignalEdge(MaxFadeRises)

FadeCalled == pc \in {"fade_poll", "fade_off", "afade_poll", "afade_off"}

NextFade ==
  \/ EdgeFade \/ updateState \/ TickFade
  \/ SwitchOnStep \/ BelayStep \/ FadeStepAny
  \/ (FadeCalled /\ ProgramPoll)
  \/ (FadeCalled /\ ProgramOff)

SpecFade == InitFade /\ [][NextFade]_vars

\* fadeLedProgram(5, 30) as loop() calls it, with the signal on throughout
InitRamp == InitFade /\ program = 1 /\ argFade = CaseFade[2]

TickRamp == Tick(RampHorizon)

NextRamp ==
  \/ TickRamp
  \/ SwTest \/ SwLastOn \/ SwRet
  \/ BelayStep
  \/ FadeWhile \/ FadeFor \/ FadeInner \/ FadeStep \/ FadeBreak
  \/ (FadeCalled /\ ProgramPoll)

SpecRamp == InitRamp /\ [][NextRamp]_vars

\* belay(d) by itself, for several d, called with the signal on or off
BelayPeriods == {0, 1, 15, 30, 175, 350}

InitBelay ==
  /\ raw \in BOOLEAN /\ irq = FALSE /\ remoteState = raw
  /\ now = 0 /\ lastOn = 0 /\ lastOff = 0
  /\ led = AllOff
  /\ pc = "belay_entry"
  /\ stack = <<"belay_done">>
  /\ ret = FALSE
  /\ program = 0 /\ fadeAmount = 0 /\ delayMillis = 0
  /\ argFade = 0 /\ argDelay = 0 /\ i = 0 /\ brightness = 0
  /\ start = 0
  /\ period \in BelayPeriods
  /\ delayFrom = 0
  /\ lowSince = 0
  /\ shown = BOOT
  /\ rises = 0
  /\ edgeSince = FALSE
  /\ seen = FALSE

TickBelay == Tick(BelayHorizon)

NextBelay == EdgeMain \/ updateState \/ TickBelay \/ BelayStep

SpecBelay == InitBelay /\ [][NextBelay]_vars


\* ------------------------------------------------------------------ claims
\* loop() is running a program (between a case's call and its return)
InProgram == stack # <<>> /\ stack[Len(stack)] = "loop_advance"

\* this step is a case of the switch calling its program
Dispatched == pc = "loop_switch" /\ pc' \in {CaseEntry[k] : k \in 1 .. NumPrograms}

\* this step is a program's while (switchOn()) going round again
Continues ==
  /\ pc \in {"static_while", "fade_while", "afade_while", "run_while",
             "blink_while", "blast_while", "ablast_while"}
  /\ pc' # pc
  /\ ret

\* C1: without a hibernation in between, the program called after program n
\* is program (n + 1) mod 7
C1_RotationOrder ==
  [][Dispatched /\ shown >= 0 => shown' = (shown + 1) % NumPrograms]_vars

\* Static Color called again after Random Color Walk, before any hibernation
C1_Witness ==
  pc = "static_set" /\ shown = 0 /\ delayMillis = 250 /\ now = 0

\* C2 (as claimed): every off->on change of the signal gets a new program:
\* no program goes round its loop again after the signal rose during it
C2_EveryRiseAdvances == [][Continues => rises = 0]_vars

\* C3 (as claimed): after the counter is reset from 7 to 0, Static Color is
\* called for the signal-on period that the poll observed: the next poll does
\* not come back false with nothing called
C3_WrapServesSamePeriod ==
  ~(pc = "loop_elif" /\ program = 0 /\ shown = NumPrograms - 1)

\* C3 (amended): at the switch after Random Color Walk, a counter of 7 is
\* reset to 0 with no program called and no output written, and a counter of
\* 0 calls Static Color: the reset costs a poll, never a place in the rotation
C3_WrapCostsNoTurn ==
  [][pc = "loop_switch" /\ shown = NumPrograms - 1 /\ pc' # pc =>
       IF program = 0
         THEN pc' = "static_set" /\ shown' = 0
         ELSE /\ program = NumPrograms
              /\ program' = 0 /\ pc' = "loop_poll"
              /\ shown' = shown /\ led' = led]_vars

\* the counter was reset from 7 and the next poll saw the signal on
C3_Witness == pc = "loop_switch" /\ program = 0 /\ shown = NumPrograms - 1

\* C4: outside the programs all three outputs are 0
C4_OutputsZeroOutsidePrograms == ~InProgram => led = AllOff

\* Random Color Jump has returned
C4_Witness == pc = "loop_advance" /\ shown = 5

\* C5 (as claimed): no value outside 0 .. 255 is given to setLed by the fade
\* programs
C5_FadeInRange == \A p \in Leds : led[p] \in 0 .. 255

\* C6 (as claimed): a switchOn() call with no edge since the previous call
\* changes neither lastOn nor lastOff
C6_SwitchOnIdempotent ==
  [][pc = "sw_test" /\ ~edgeSince =>
       /\ pc' = "sw_lastOn" => lastOn = now
       /\ pc' = "sw_lastOff" => lastOff = now]_vars

\* C7 (as claimed): the hibernate branch is taken only when the pin has been
\* low for more than 10000 ms
C7_HibernateOnlyAfterOff ==
  pc = "hib_reset" => ~raw /\ Sub32(now, lowSince) > hibernateMillis

\* C8: in the idle wait the counter is 0, and the first program called after
\* a hibernation is Static Color, which sets the outputs to (25, 255, 25)
C8_IdleResetsRotation ==
  [][/\ pc' \in {"hib_test", "hib_delay"} => program' = 0
     /\ Dispatched /\ shown = HIBERNATE => pc' = "static_set" /\ shown' = 0
     /\ pc = "static_set" /\ pc' # pc =>
          led' = [p \in Leds |-> IF p = gLed THEN 255 ELSE 25]]_vars

\* Static Color runs after a hibernation that followed another program
C8_Witness ==
  /\ pc = "static_while" /\ shown = 0 /\ now > hibernateMillis
  /\ delayMillis # 0 /\ led[gLed] = 255


\* the idle wait: while (!remoteState) delay(fastPollMillis)
Idle == pc \in {"hib_test", "hib_delay"}

\* the main flow runs, interrupts are served and the clock advances
Fairness == WF_vars(Main) /\ WF_vars(updateState) /\ SF_vars(TickMain)

LiveSpec == Spec /\ Fairness

\* a delay of Static Color that begins by LiveHorizon ends within OnHorizon
LiveHorizon == OnHorizon - fastPollMillis

C10_BelayReturns ==
  [][(pc \in {"belay_while", "belay_if"} /\ pc' # pc) =>
       (/\ Sub32(now, start) <= period
        /\ (pc = "belay_while" /\ ~remoteState) => (pc' = Head(stack))
        /\ (pc = "belay_if" /\ Sub32(now, start) >= period) =>
             (pc' = Head(stack)))]_vars

\* belay(d), d > 0, has waited d ms with the signal on after an off/on pulse
C10_Witness ==
  /\ pc = "belay_if" /\ remoteState /\ rises > 0
  /\ period > 0 /\ Sub32(now, start) = period


\* C11: while the main flow is in belay, lastOn, lastOff, the counter and
\* the outputs do not change, and remoteState changes only in a step of
\* the interrupt handler
C11_BelayReadOnly ==
  [][(pc \in {"belay_entry", "belay_while", "belay_if"}) =>
       (/\ lastOn' = lastOn
        /\ lastOff' = lastOff
        /\ program' = program
        /\ led' = led
        /\ (remoteState' = remoteState) \/ (irq /\ irq' = FALSE))]_vars

\* a belay called by a program other than the first, with outputs lit, during
\* which the signal went off
C11_Witness ==
  pc = "belay_if" /\ ~remoteState /\ program > 0 /\ led # AllOff


\* C12 (as claimed): with no interrupt pending, remoteState is the level of
\* the pin
C12_StateFollowsPin == ~irq => remoteState = raw


\* C13 (as claimed): fadeLedProgram(5, 30) never goes on to ramp another
\* channel with a partially ramped channel left lit: at most one output is
\* not 0
C13_DeassertEndsFade ==
  (shown = 1 /\ fadeAmount = 5 /\ InProgram) =>
    Cardinality({p \in Leds : led[p] # 0}) <= 1


\* C14: a step of updateState changes neither lastOn, lastOff, the counter,
\* the outputs nor the position of the main flow; lastOn and lastOff are
\* written only by the two assignments of switchOn()
C14_HandlerOnlySetsState ==
  [][/\ (irq /\ irq' = FALSE) =>
          (/\ lastOn' = lastOn
           /\ lastOff' = lastOff
           /\ program' = program
           /\ led' = led
           /\ pc' = pc)
     /\ (lastOn' # lastOn) => (pc = "sw_lastOn" /\ pc' = "sw_ret")
     /\ (lastOff' # lastOff) => (pc = "sw_lastOff" /\ pc' = "sw_ret")]_vars

\* updateState has run between the comparison of switchOn() that chose to
\* write lastOn and the write
C14_Witness == pc = "sw_lastOn" /\ ~remoteState /\ ~irq /\ now > 0


\* C15: when the pin goes high during the idle wait, then unless it goes low
\* again loop() comes to call a program
C15_OnLeavesIdle == (Idle /\ raw /\ irq) ~> (~raw \/ InProgram)

\* Static Color called after an idle wait that followed other programs
C15_Witness ==
  /\ pc = "static_set" /\ raw /\ remoteState
  /\ now > hibernateMillis /\ delayMillis # 0


\* C16: with the pin low inside a program, unless the pin goes high again the
\* program returns to loop().  (For Static Color the pin is low by
\* LiveHorizon, so that its delay can end within OnHorizon.)
C16_OffEndsProgram ==
  (InProgram /\ ~raw /\ (shown = 0 => now <= LiveHorizon))
    ~> (raw \/ ~InProgram)

\* Random Color Walk has returned with the signal off
C16_Witness ==
  pc = "loop_advance" /\ shown = 6 /\ ~raw /\ ~remoteState /\ ~irq


\* C17: with the signal on throughout, fadeLedProgram(5, 30) writes only the
\* channel ledPins[i], moving it by one step of 5; the step changes sign only
\* on reaching 255 (to -5) and 0 (to 5); i goes 0, 1, 2 and round again, a
\* channel being left only when it is back at 0 with the step at 5; so at
\* most one channel is not 0
C17_OneRampPerChannel ==
  [][/\ (led' # led) =>
          (/\ argFade \in {5, -5}
           /\ led' = [led EXCEPT ![ledPins[i + 1]] = led[ledPins[i + 1]] + argFade]
           /\ led'[ledPins[i + 1]] \in 0 .. 255)
     /\ (argFade' # argFade) =>
          ((brightness' = 255 /\ argFade' = -5) \/ (brightness' = 0 /\ argFade' = 5))
     /\ (i' # i) =>
          (/\ led = AllOff
           /\ argFade = 5
           /\ (i' = i + 1 /\ pc = "fade_break") \/ (i = 3 /\ i' = 0))
     /\ Cardinality({p \in Leds : led'[p] # 0}) <= 1]_vars

\* the third channel of the rotation, blue, at the top of its ramp
C17_Witness == led = [p \in Leds |-> IF p = bLed THEN 255 ELSE 0] /\ i = 2


\* this step of a program writes a value other than 0 to an output
WritesNonZero == InProgram /\ \E p \in Leds : led'[p] # led[p] /\ led'[p] # 0

\* C18 (as claimed): no program writes a value other than 0 to an output
\* while remoteState is off
C18_NoWriteWhileOff == [][WritesNonZero => remoteState]_vars

\* C18 (amended): a program is called only when the poll of loop() returned
\* true, and a program writes a value other than 0 with remoteState off only
\* if updateState has run since the last switchOn() read remoteState
C18_WriteOnlyAfterOnPoll ==
  [][/\ (InProgram' /\ ~InProgram) => (pc = "loop_switch")
     /\ (pc' = "loop_switch" /\ pc' # pc) => (pc = "loop_if" /\ ret)
     /\ (pc = "sw_ret" /\ pc' # pc) => (ret' = remoteState)
     /\ WritesNonZero => (remoteState \/ edgeSince)]_vars

\* Static Color has set its colour after the signal went off between the
\* poll of loop() and the call
C18_Witness ==
  /\ pc = "sw_test" /\ Head(stack) = "static_while"
  /\ led = [p \in Leds |-> IF p = gLed THEN 255 ELSE 25]
  /\ ~remoteState /\ ~raw /\ ~irq /\ rises = 0


\* C19: program is in 0 .. 7; a program is called only with program in
\* 0 .. 6; program is 7 only after Random Color Walk returned and loop()
\* added 1, until the switch or the hibernate branch resets it; program
\* changes only by + 1 after a return, or to 0 in the default case and in
\* the hibernate branch
C19_CounterRange ==
  [][/\ program' \in 0 .. NumPrograms
     /\ Dispatched => (program \in 0 .. (NumPrograms - 1))
     /\ (program' = NumPrograms) =>
          (/\ shown' = NumPrograms - 1
           /\ InProgram' = FALSE
           /\ pc' \notin {"loop_advance", "hib_test", "hib_delay"})
     /\ (program' # program) =>
          (\/ pc = "loop_advance" /\ program' = program + 1
           \/ pc \in {"loop_switch", "hib_reset"} /\ program' = 0)]_vars

\* the counter at 7 after a poll that returned false
C19_Witness == program = NumPrograms /\ pc = "loop_elif"


====
